---- MODULE Spec2Model ----
(***************************************************************************)
(* Model of ra-multiplex's src/config.rs: the configuration schema with    *)
(* its field validators (mod de, struct Config, Config::try_load) and the  *)
(* logging bootstrap (Config::init_logger, init_terminal_logger,           *)
(* init_file_logger, init_file_writter, the FILE_LOGGER OnceCell and the   *)
(* Log struct holding the non-blocking writer and its WorkerGuard).        *)
(***************************************************************************)
EXTENDS Integers, Sequences, FiniteSets, TLC

VARIABLES
    env,            \* RUST_LOG: None or Some(string)
    fs,             \* the log file path: [kind, len]
    cell,           \* static FILE_LOGGER: OnceCell<Log>: None or Some(writer id)
    permit,         \* task running the OnceCell initializer, 0 when nobody is
    installed,      \* the global default subscriber: None or Some(sink)
    pc,             \* per task: position inside init_logger
    cfg,            \* per task: the Config init_logger is called on
    result,         \* per task: outcome of its init_logger call
    log,            \* per task: the &Log obtained from get_or_try_init
    backend,        \* per task: the backend init_logger dispatched to
    calledAfterOk,  \* per task, while its call runs: a call had returned Ok on entry
    ops,            \* file-system operations performed by init_file_writter
    queue,          \* records enqueued to the NonBlocking writer, not yet written
    written,        \* records the worker thread has written to the log file
    nextRecord,     \* id of the next record to be logged
    exited,         \* the process has exited
    doc,            \* the document try_load reads
    loaded          \* the value try_load returned, None before it ran

vars == <<env, fs, cell, permit, installed, pc, cfg, result, log, backend,
          calledAfterOk, ops, queue, written, nextRecord, exited, doc, loaded>>

loggerVars == <<env, fs, cell, permit, installed, pc, cfg, result, log, backend,
                calledAfterOk, ops, queue, written, nextRecord, exited>>

loadVars == <<doc, loaded>>

None == <<>>
Some(v) == <<v>>
Unwrap(o) == o[1]

------------------------------------------------------------------------------
(* Bounds *)

NumTasks == 2
Slack == 1
MaxRecords == 1
MaxEntries == 2

(* Program constants *)

RotateThreshold == 1048576

Tasks == 1..NumTasks

LogModes == {"file", "terminal", "", "File"}
LogFilters == {"debug", "a=b=c"}
EnvVals == {None, Some("trace"), Some("a=b=c")}
Configs == [log_mode : LogModes, log_filters : LogFilters]

FileSizes == {0} \cup ((RotateThreshold - Slack)..(RotateThreshold + Slack))
Missing == [kind |-> "missing", len |-> 0]
FileStates == {Missing, [kind |-> "dir", len |-> RotateThreshold]}
                \cup {[kind |-> "file", len |-> n] : n \in FileSizes}

------------------------------------------------------------------------------
(* Filter resolution, lines 189-191 and 223-225.  A Result is None for Err   *)
(* and Some(filter) for Ok; a filter is named by its directive string.       *)

\* EnvFilter::try_new: strict parse of a directive string
EnvFilterTryNew(s) == IF s \in {"info", "debug", "trace"} THEN Some(s) ELSE None

\* EnvFilter::try_from_default_env: Err when RUST_LOG is unset or does not parse
TryFromDefaultEnv(e) == IF e = None THEN None ELSE EnvFilterTryNew(Unwrap(e))

\* faulty variant: the configured filter takes precedence over the environment
ResolveFilterConfigFirst(e, log_filters) ==
    LET r1 == EnvFilterTryNew(log_filters)
        r2 == IF r1 # None THEN r1 ELSE TryFromDefaultEnv(e)
    IN  IF r2 # None THEN Unwrap(r2) ELSE "info"

\* try_from_default_env().or_else(try_new(log_filters)).unwrap_or_else(new("info"))
ResolveFilter(e, log_filters) ==
    LET r1 == TryFromDefaultEnv(e)
        r2 == IF r1 # None THEN r1 ELSE EnvFilterTryNew(log_filters)
    IN  IF r2 # None THEN Unwrap(r2) ELSE "info"

------------------------------------------------------------------------------
(* Mode dispatch, lines 174-177 *)

\* faulty variant: only "terminal" selects the console backend
SelectBackendFileDefault(log_mode) ==
    IF log_mode = "terminal" THEN "terminal" ELSE "file"

SelectBackend(log_mode) ==
    IF log_mode = "file" THEN "file" ELSE "terminal"

------------------------------------------------------------------------------
(* Rotation decision, lines 241-242 *)

\* tokio::fs::metadata: Err for a missing path
Metadata(f) ==
    IF f.kind = "missing" THEN None
    ELSE Some([is_file |-> f.kind = "file", len |-> f.len])

\* faulty variant: strict comparison with the threshold
RotationNeededStrict(attr) ==
    attr # None /\ Unwrap(attr).is_file /\ Unwrap(attr).len > RotateThreshold

\* attr.is_ok_and(|a| a.is_file() && a.len() >= 1048576)
RotationNeeded(attr) ==
    attr # None /\ Unwrap(attr).is_file /\ Unwrap(attr).len >= RotateThreshold

------------------------------------------------------------------------------
(* FILE_LOGGER: OnceCell<Log>, lines 206-213 *)

\* faulty variant: the writer is built on every call
IsInitializedNever(c) == FALSE

IsInitialized(c) == c # None

------------------------------------------------------------------------------
(* TOML values.  Integers are i64 in the document; a value n is held as the   *)
(* pair hi, lo with n = hi * 2^16 + lo and 0 <= lo < 2^16, so that the u32    *)
(* range 0 .. 2^32 - 1 is exactly 0 <= hi < 2^16.                             *)

Word == 65535 + 1
IntV(hi, lo) == [t |-> "int", hi |-> hi, lo |-> lo]
BoolV(b) == [t |-> "bool", b |-> b]
StrV(s) == [t |-> "str", s |-> s]
ArrV(of) == [t |-> "array", of |-> of]

IntVals == {IntV(0 - 1, Word - 1), IntV(0, 0), IntV(0, 1),
            IntV(Word - 1, Word - 1), IntV(Word, 0)}
Values == IntVals \cup {BoolV(TRUE), BoolV(FALSE), StrV("file"), ArrV("ip_port")}

KnownFields == {"instance_timeout", "gc_interval", "listen", "connect",
                "log_filters", "log_mode", "pass_environment"}
DocKeys == {"instance_timeout", "gc_interval", "listen", "log_mode", "timeout"}

Ok(v) == [ok |-> TRUE, value |-> v]
Err(e) == [ok |-> FALSE, error |-> e]

\* faulty variant: the integer is taken without a range check
InU32Any(v) == TRUE

\* u32's visitor accepts an i64 in 0 ..= u32::MAX
InU32(v) == 0 <= v.hi /\ v.hi < Word

\* u32::deserialize
DeU32(v) ==
    IF v.t = "int" /\ InU32(v) THEN Ok([hi |-> v.hi, lo |-> v.lo])
    ELSE Err([kind |-> "invalid type", expected |-> "u32"])

\* mod default, lines 13-46
DefaultConfig ==
    [instance_timeout |-> Some([hi |-> 0, lo |-> 5 * 60]),
     gc_interval |-> [hi |-> 0, lo |-> 10],
     listen |-> [variant |-> "Tcp", ip |-> "127.0.0.1", port |-> 27631],
     connect |-> [variant |-> "Tcp", ip |-> "127.0.0.1", port |-> 27631],
     log_filters |-> "info",
     log_mode |-> "terminal",
     pass_environment |-> {}]

\* de::instance_timeout, lines 52-74: the untagged OneOf tries Bool, then U32
DeInstanceTimeout(v) ==
    LET oneof == IF v.t = "bool" THEN Ok([variant |-> "Bool", b |-> v.b])
                 ELSE IF DeU32(v).ok
                      THEN Ok([variant |-> "U32", value |-> DeU32(v).value])
                      ELSE Err("data did not match any variant")
    IN  IF ~oneof.ok
        THEN Err([kind |-> "invalid type",
                  expected |-> "a non-negative integer or false"])
        ELSE IF oneof.value.variant = "U32" THEN Ok(Some(oneof.value.value))
        ELSE IF oneof.value.b = FALSE THEN Ok(None)
        ELSE Err([kind |-> "invalid value", unexpected |-> "boolean true",
                  expected |-> "a non-negative integer or false"])

\* faulty variant: the value is taken without the zero check
DeGcIntervalUnchecked(v) == DeU32(v)

\* de::gc_interval, lines 77-88
DeGcInterval(v) ==
    LET r == DeU32(v)
    IN  IF ~r.ok THEN r
        ELSE IF r.value.hi = 0 /\ r.value.lo = 0
             THEN Err([kind |-> "invalid value", unexpected |-> "integer 0",
                       expected |-> "an integer 1 or greater"])
             ELSE Ok(r.value)

\* untagged Address, lines 91-97: Tcp(IpAddr, u16) first, then Unix(PathBuf)
DeAddress(v) ==
    IF v.t = "array" /\ v.of = "ip_port"
    THEN Ok([variant |-> "Tcp", ip |-> "127.0.0.1", port |-> 27631])
    ELSE IF v.t = "str" THEN Ok([variant |-> "Unix", path |-> v.s])
    ELSE Err([kind |-> "invalid type",
              expected |-> "any variant of untagged enum Address"])

\* String fields
DeString(v) ==
    IF v.t = "str" THEN Ok(v.s)
    ELSE Err([kind |-> "invalid type", expected |-> "a string"])

\* BTreeSet<String>
DeStringSet(v) ==
    IF v.t = "array" /\ v.of = "strings" THEN Ok({"PATH"})
    ELSE Err([kind |-> "invalid type", expected |-> "a sequence"])

\* the deserializer each field of Config uses, lines 101-124
DeField(k, v) ==
    CASE k = "instance_timeout" -> DeInstanceTimeout(v)
      [] k = "gc_interval" -> DeGcInterval(v)
      [] k \in {"listen", "connect"} -> DeAddress(v)
      [] k \in {"log_filters", "log_mode"} -> DeString(v)
      [] k = "pass_environment" -> DeStringSet(v)

\* faulty variant: the struct without deny_unknown_fields
IsKnownFieldLax(k) == TRUE

\* #[serde(deny_unknown_fields)], line 100
IsKnownField(k) == k \in KnownFields

\* the derived Deserialize of Config: the document's entries in order; an
\* unknown or repeated key, or a value its field rejects, ends the parse;
\* fields never seen keep their default
RECURSIVE DeConfig(_, _, _, _)
DeConfig(entries, i, seen, acc) ==
    IF i > Len(entries) THEN Ok(acc)
    ELSE LET k == entries[i][1]
             v == entries[i][2]
         IN  IF ~IsKnownField(k)
             THEN Err([field |-> k, kind |-> "unknown field", expected |-> ""])
             ELSE IF k \in seen
             THEN Err([field |-> k, kind |-> "duplicate field", expected |-> ""])
             ELSE IF k \notin KnownFields
             THEN \* a key no field claims, let through: it is ignored
                  DeConfig(entries, i + 1, seen \cup {k}, acc)
             ELSE LET r == DeField(k, v)
                  IN  IF ~r.ok
                      THEN Err([field |-> k, kind |-> r.error.kind,
                                expected |-> r.error.expected])
                      ELSE DeConfig(entries, i + 1, seen \cup {k},
                                    [acc EXCEPT ![k] = r.value])

\* Config::try_load, lines 157-167
try_load(d) ==
    IF d.state = "no_config_dir"
    THEN [ok |-> FALSE, context |-> "project config directory not found"]
    ELSE IF d.state = "unreadable"
    THEN [ok |-> FALSE, context |-> "cannot read config file"]
    ELSE IF d.state = "malformed"
    THEN [ok |-> FALSE, context |-> "cannot parse config file",
          cause |-> [field |-> "", kind |-> "syntax", expected |-> ""]]
    ELSE LET r == DeConfig(d.entries, 1, {}, DefaultConfig)
         IN  IF r.ok THEN [ok |-> TRUE, config |-> r.value]
             ELSE [ok |-> FALSE, context |-> "cannot parse config file",
                   cause |-> r.error]

RECURSIVE SeqsUpTo(_, _)
SeqsUpTo(S, n) ==
    IF n = 0 THEN {<<>>}
    ELSE LET shorter == SeqsUpTo(S, n - 1)
         IN  shorter \cup {Append(q, x) : q \in {p \in shorter : Len(p) = n - 1},
                                           x \in S}

NoDoc == [state |-> "no_config_dir", entries |-> <<>>]
Docs == {NoDoc,
         [state |-> "unreadable", entries |-> <<>>],
         [state |-> "malformed", entries |-> <<>>]}
        \cup {[state |-> "ok", entries |-> e] :
                e \in SeqsUpTo(DocKeys \X Values, MaxEntries)}

------------------------------------------------------------------------------
Init ==
    /\ env \in EnvVals
    /\ fs \in FileStates
    /\ cell = None
    /\ permit = 0
    /\ installed = None
    /\ pc = [t \in Tasks |-> "idle"]
    /\ cfg = [t \in Tasks |-> None]
    /\ result = [t \in Tasks |-> "none"]
    /\ log = [t \in Tasks |-> None]
    /\ backend = [t \in Tasks |-> "none"]
    /\ calledAfterOk = [t \in Tasks |-> FALSE]
    /\ ops = [metadata |-> 0, remove |-> 0, open |-> 0]
    /\ queue = <<>>
    /\ written = <<>>
    /\ nextRecord = 1
    /\ exited = FALSE
    /\ doc = NoDoc
    /\ loaded = None

SomeCallReturnedOk == \E u \in Tasks : result[u] = "Ok"

\* tracing_subscriber::registry().with(filter).with(format).init():
\* try_init().expect(..) panics when a global default is already set
TryInstall(t, sink) ==
    IF installed = None
    THEN /\ installed' = Some(sink)
         /\ result' = [result EXCEPT ![t] = "Ok"]
    ELSE /\ installed' = installed
         /\ result' = [result EXCEPT ![t] = "panic"]

\* init_logger on a Config whose log_mode selects the console backend:
\* init_terminal_logger runs to completion without suspending
InitLoggerTerminal(t) ==
    /\ ~exited
    /\ pc[t] = "idle"
    /\ \E c \in Configs :
        /\ SelectBackend(c.log_mode) = "terminal"
        /\ cfg' = [cfg EXCEPT ![t] = Some(c)]
        /\ backend' = [backend EXCEPT ![t] = "terminal"]
        /\ TryInstall(t, [backend |-> "terminal",
                          filter |-> ResolveFilter(env, c.log_filters),
                          writer |-> None, by |-> t])
    /\ pc' = [pc EXCEPT ![t] = "done"]
    /\ UNCHANGED <<env, fs, cell, permit, log, calledAfterOk, ops, queue,
                   written, nextRecord, exited, loadVars>>

\* init_logger on a Config with log_mode "file": enters init_file_logger and
\* reaches FILE_LOGGER.get_or_try_init(..).await
InitLoggerFile(t) ==
    /\ ~exited
    /\ pc[t] = "idle"
    /\ \E c \in Configs :
        /\ SelectBackend(c.log_mode) = "file"
        /\ cfg' = [cfg EXCEPT ![t] = Some(c)]
    /\ backend' = [backend EXCEPT ![t] = "file"]
    /\ calledAfterOk' = [calledAfterOk EXCEPT ![t] = SomeCallReturnedOk]
    /\ pc' = [pc EXCEPT ![t] = "get_or_try_init"]
    /\ UNCHANGED <<env, fs, cell, permit, installed, result, log, ops, queue,
                   written, nextRecord, exited, loadVars>>

\* OnceCell::get_or_try_init: the cached value when set, otherwise the caller
\* takes the cell's single permit and runs init_file_writter
GetOrTryInit(t) ==
    /\ ~exited
    /\ pc[t] = "get_or_try_init"
    /\ IF IsInitialized(cell)
       THEN /\ log' = [log EXCEPT ![t] = cell]
            /\ pc' = [pc EXCEPT ![t] = "install"]
            /\ permit' = permit
       ELSE /\ permit = 0
            /\ permit' = t
            /\ pc' = [pc EXCEPT ![t] = "init_file_writter"]
            /\ log' = log
    /\ UNCHANGED <<env, fs, cell, installed, cfg, result, backend, calledAfterOk,
                   ops, queue, written, nextRecord, exited, loadVars>>

\* the initializer returned Err or panicked: the permit goes back, the cell
\* stays empty and init_logger ends with that outcome
FailInit(t, outcome) ==
    /\ result' = [result EXCEPT ![t] = outcome]
    /\ pc' = [pc EXCEPT ![t] = "done"]
    /\ calledAfterOk' = [calledAfterOk EXCEPT ![t] = FALSE]
    /\ permit' = 0

\* init_file_writter, lines 234-255, run by the holder of the permit:
\*   ProjectDirs::from(..).context(..)?           Err when no directory is known
\*   metadata; remove_file(..).await? when the rotation is needed
\*   create_dir_all(dir).await?
\*   rolling::never(dir, file) opens the file for append, creating it, and
\*   panics when the open fails; non_blocking starts the worker
\* and on Ok the OnceCell stores the Log and is initialized
InitFileWritter(t) ==
    /\ ~exited
    /\ pc[t] = "init_file_writter"
    /\ \E fails \in {"project_dirs", "remove_file", "create_dir_all",
                     "open", "nothing"} :
        LET rotate == RotationNeeded(Metadata(fs))
            kept == IF rotate THEN Missing ELSE fs
            stat == [ops EXCEPT !.metadata = @ + 1]
            done == IF rotate THEN [stat EXCEPT !.remove = @ + 1] ELSE stat
        IN  IF fails = "project_dirs"
            THEN /\ FailInit(t, "Err")
                 /\ UNCHANGED <<fs, ops, cell, log>>
            ELSE IF rotate /\ fails = "remove_file"
            THEN /\ FailInit(t, "Err")
                 /\ ops' = stat
                 /\ UNCHANGED <<fs, cell, log>>
            ELSE IF fails = "create_dir_all"
            THEN /\ FailInit(t, "Err")
                 /\ fs' = kept
                 /\ ops' = done
                 /\ UNCHANGED <<cell, log>>
            ELSE IF fails = "open" \/ kept.kind = "dir"
            THEN /\ FailInit(t, "panic")
                 /\ fs' = kept
                 /\ ops' = done
                 /\ UNCHANGED <<cell, log>>
            ELSE /\ fs' = [kind |-> "file", len |-> kept.len]
                 /\ ops' = [done EXCEPT !.open = @ + 1]
                 /\ cell' = Some(ops.open + 1)
                 /\ log' = [log EXCEPT ![t] = Some(ops.open + 1)]
                 /\ permit' = 0
                 /\ pc' = [pc EXCEPT ![t] = "install"]
                 /\ UNCHANGED <<result, calledAfterOk>>
    /\ UNCHANGED <<env, installed, cfg, backend, queue, written, nextRecord,
                   exited, loadVars>>

\* init_file_logger, lines 215-231: build the layer on log.non_blocking,
\* resolve the filter and install the subscriber
InstallFile(t) ==
    /\ ~exited
    /\ pc[t] = "install"
    /\ TryInstall(t, [backend |-> "file",
                      filter |-> ResolveFilter(env, Unwrap(cfg[t]).log_filters),
                      writer |-> log[t], by |-> t])
    /\ pc' = [pc EXCEPT ![t] = "done"]
    /\ calledAfterOk' = [calledAfterOk EXCEPT ![t] = FALSE]
    /\ UNCHANGED <<env, fs, cell, permit, cfg, log, backend, ops, queue,
                   written, nextRecord, exited, loadVars>>

\* a record passes the installed file sink: NonBlocking enqueues it and returns
Enqueue ==
    /\ ~exited
    /\ installed # None
    /\ Unwrap(installed).backend = "file"
    /\ nextRecord <= MaxRecords
    /\ queue' = Append(queue, nextRecord)
    /\ nextRecord' = nextRecord + 1
    /\ UNCHANGED <<env, fs, cell, permit, installed, pc, cfg, result, log,
                   backend, calledAfterOk, ops, written, exited, loadVars>>

\* the worker thread started by non_blocking takes the oldest record and
\* appends it to the log file
WorkerWrite ==
    /\ ~exited
    /\ cell # None
    /\ queue # <<>>
    /\ written' = Append(written, Head(queue))
    /\ queue' = Tail(queue)
    /\ fs' = [fs EXCEPT !.len = @ + 1]
    /\ UNCHANGED <<env, cell, permit, installed, pc, cfg, result, log, backend,
                   calledAfterOk, ops, nextRecord, exited, loadVars>>

\* the process exits.  FILE_LOGGER is a static: its destructor never runs, so
\* Log._guard is not dropped and nothing waits for the worker to drain the queue
Exit ==
    /\ ~exited
    /\ exited' = TRUE
    /\ UNCHANGED <<env, fs, cell, permit, installed, pc, cfg, result, log,
                   backend, calledAfterOk, ops, queue, written, nextRecord,
                   loadVars>>

Next ==
    \/ \E t \in Tasks : InitLoggerTerminal(t)
    \/ \E t \in Tasks : InitLoggerFile(t)
    \/ \E t \in Tasks : GetOrTryInit(t)
    \/ \E t \in Tasks : InitFileWritter(t)
    \/ \E t \in Tasks : InstallFile(t)

Spec == Init /\ [][Next]_vars

\* the bootstrap together with the logging that follows it and process exit
NextRun ==
    \/ Next
    \/ Enqueue
    \/ WorkerWrite
    \/ Exit

SpecRun == Init /\ [][NextRun]_vars

------------------------------------------------------------------------------
(* Configuration loading on its own: the document on disk is any of Docs *)

InitLoad ==
    /\ doc \in Docs
    /\ loaded = None
    /\ env = None
    /\ fs = Missing
    /\ cell = None
    /\ permit = 0
    /\ installed = None
    /\ pc = [t \in Tasks |-> "idle"]
    /\ cfg = [t \in Tasks |-> None]
    /\ result = [t \in Tasks |-> "none"]
    /\ log = [t \in Tasks |-> None]
    /\ backend = [t \in Tasks |-> "none"]
    /\ calledAfterOk = [t \in Tasks |-> FALSE]
    /\ ops = [metadata |-> 0, remove |-> 0, open |-> 0]
    /\ queue = <<>>
    /\ written = <<>>
    /\ nextRecord = 1
    /\ exited = FALSE

\* the host calls Config::try_load once at start
TryLoad ==
    /\ loaded = None
    /\ loaded' = Some(try_load(doc))
    /\ UNCHANGED <<doc, loggerVars>>

NextLoad == TryLoad

SpecLoad == InitLoad /\ [][NextLoad]_vars

------------------------------------------------------------------------------
(* Claims about the logging bootstrap, checked under Spec *)

\* C1: whatever the number and interleaving of file-backend initializations,
\* init_file_writter completes successfully at most once; once the cell holds
\* a writer, no call makes a rotation decision, deletes or opens the file, the
\* cell keeps its value, and every caller that obtained a writer holds that one
C1_WriterInitOnce ==
    [][/\ cell # None => (cell' = cell /\ ops' = ops)
       /\ ops'.open <= 1
       /\ \A t \in Tasks : log'[t] # None => log'[t] = cell'
      ]_vars

\* a second caller obtained the writer the first one cached
C1_Witness ==
    \E t, u \in Tasks :
        /\ t # u
        /\ cell # None /\ log[t] = cell /\ log[u] = cell
        /\ ops.open = 1 /\ ops.metadata = 1

\* the call task t is making, or makes in this step, began after some call
\* had returned Ok
MadeAfterOk(t) ==
    IF pc[t] = "idle" THEN SomeCallReturnedOk ELSE calledAfterOk[t]

\* C2: the global sink is installed at most once, and an init_logger call made
\* after an earlier call returned Ok never returns Ok: it panics
C2_SecondInitPanics ==
    [][/\ Cardinality({t \in Tasks : result'[t] = "Ok"}) <= 1
       /\ installed # None => installed' = installed
       /\ \A t \in Tasks :
            (pc[t] # "done" /\ pc'[t] = "done" /\ MadeAfterOk(t)) =>
                result'[t] = "panic"
      ]_vars

\* C3: when init_file_writter runs, the log file is deleted only if it is a
\* file of at least 1,048,576 bytes, and whenever the file gets opened it was
\* deleted first exactly in that case; a file of at most 1,048,575 bytes is
\* never deleted and keeps its bytes when opened (append), a missing file is
\* created empty
C3_RotationAtThreshold ==
    [][/\ \A t \in Tasks :
            (pc[t] = "init_file_writter" /\ pc'[t] # pc[t]) =>
                LET oversized == fs.kind = "file" /\ fs.len >= 1048576
                    deleted == ops'.remove # ops.remove
                    opened == ops'.open # ops.open
                IN  /\ deleted => (oversized /\ fs.kind = "file")
                    /\ opened => (deleted <=> oversized)
                    /\ opened => fs' = [kind |-> "file", len |->
                          IF fs.kind = "file" /\ fs.len <= 1048575
                          THEN fs.len ELSE 0]
                    /\ (fs.kind = "file" /\ fs.len <= 1048575) => fs' = fs
       /\ ops'.remove # ops.remove =>
            (fs.kind = "file" /\ fs.len >= 1048576)
       /\ (fs.kind = "file" /\ fs.len <= 1048575) =>
            (fs'.kind = "file" /\ fs'.len >= fs.len)
      ]_vars

\* an oversized file was deleted and the writer then opened a fresh one
C3_Witness ==
    /\ cell # None
    /\ ops.remove = 1
    /\ ops.open = 1
    /\ fs = [kind |-> "file", len |-> 0]

\* C4: every record enqueued to the non-blocking writer has been written to the
\* log file when the process has exited
C4_AllFlushedAtExit ==
    exited => (queue = <<>> /\ Len(written) = nextRecord - 1)

\* C5: the installed filter is the environment override when present and
\* valid, else log_filters when valid, else "info"; and no call fails at
\* filter resolution: an Err comes from the writer initialization only, a
\* panic from it or from a sink installed by another call
C5_FilterResolution ==
    /\ installed # None =>
        LET sink == Unwrap(installed)
            conf == Unwrap(cfg[sink.by])
            valid == {"info", "debug", "trace"}
        IN  sink.filter =
                (IF env # None /\ Unwrap(env) \in valid THEN Unwrap(env)
                 ELSE IF conf.log_filters \in valid THEN conf.log_filters
                 ELSE "info")
    /\ \A t \in Tasks :
        /\ result[t] = "Err" => (backend[t] = "file" /\ log[t] = None)
        /\ result[t] = "panic" =>
              \/ (backend[t] = "file" /\ log[t] = None)
              \/ (installed # None /\ Unwrap(installed).by # t)

\* environment override and log_filters both invalid: the sink filters on "info"
C5_Witness ==
    /\ env = Some("a=b=c")
    /\ installed # None
    /\ Unwrap(cfg[Unwrap(installed).by]).log_filters = "a=b=c"
    /\ Unwrap(installed).filter = "info"
    /\ result[Unwrap(installed).by] = "Ok"

\* C6: a call runs the file backend exactly when log_mode is "file" and the
\* console backend for every other string; a console call never touches the
\* file writer and never returns Err
C6_ModeSelection ==
    \A t \in Tasks :
        cfg[t] # None =>
            /\ backend[t] = (IF Unwrap(cfg[t]).log_mode = "file"
                             THEN "file" ELSE "terminal")
            /\ backend[t] = "terminal" =>
                  (log[t] = None /\ pc[t] = "done" /\ permit # t
                   /\ result[t] \in {"Ok", "panic"})
            /\ (installed # None /\ Unwrap(installed).by = t) =>
                  Unwrap(installed).backend = backend[t]

\* an unrecognized log_mode installed the console sink
C6_Witness ==
    \E t \in Tasks :
        /\ cfg[t] # None
        /\ Unwrap(cfg[t]).log_mode = "File"
        /\ result[t] = "Ok"
        /\ installed # None
        /\ Unwrap(installed).backend = "terminal"
        /\ ops.metadata = 0

\* C10: a call made after the sink was installed does not delete or open the
\* log file and leaves the file-writer singleton as it was
C10_NoFileEffectsAfterInstall ==
    [][\A t \in Tasks :
        (calledAfterOk[t] /\ pc'[t] # pc[t]) =>
            (fs' = fs /\ cell' = cell /\ ops'.remove = ops.remove
             /\ ops'.open = ops.open)
      ]_vars

------------------------------------------------------------------------------
(* Claims about configuration loading, checked under SpecLoad *)

FirstKeyIs(k) ==
    /\ loaded # None
    /\ doc.state = "ok"
    /\ Len(doc.entries) >= 1
    /\ doc.entries[1][1] = k

FirstValue == doc.entries[1][2]
Loaded == Unwrap(loaded)
Only == Len(doc.entries) = 1

\* C7 (amended): an integer in 0 .. 4294967295 yields Some(n), false yields
\* None, true is rejected as an invalid value and everything else, an integer
\* above 4294967295 included, as an invalid type, both errors expecting
\* "a non-negative integer or false"
C7_InstanceTimeoutU32 ==
    FirstKeyIs("instance_timeout") =>
        LET v == FirstValue
            expects == "a non-negative integer or false"
        IN  IF v.t = "int" /\ 0 <= v.hi /\ v.hi <= 65535
            THEN /\ Only => Loaded.ok
                 /\ Loaded.ok => Loaded.config.instance_timeout
                                    = Some([hi |-> v.hi, lo |-> v.lo])
            ELSE IF v = BoolV(FALSE)
            THEN /\ Only => Loaded.ok
                 /\ Loaded.ok => Loaded.config.instance_timeout = None
            ELSE /\ ~Loaded.ok
                 /\ Loaded.context = "cannot parse config file"
                 /\ Loaded.cause =
                        [field |-> "instance_timeout",
                         kind |-> IF v = BoolV(TRUE) THEN "invalid value"
                                  ELSE "invalid type",
                         expected |-> expects]

\* the largest accepted timeout, 4294967295
C7_Witness ==
    /\ FirstKeyIs("instance_timeout")
    /\ FirstValue = IntV(65535, 65535)
    /\ Loaded.ok
    /\ Loaded.config.instance_timeout = Some([hi |-> 65535, lo |-> 65535])

\* C7 as stated: every non-negative integer n yields Some(n)
C7_EveryNonNegativeAccepted ==
    (FirstKeyIs("instance_timeout") /\ Only
        /\ FirstValue.t = "int" /\ FirstValue.hi >= 0) =>
            /\ Loaded.ok
            /\ Loaded.config.instance_timeout
                  = Some([hi |-> FirstValue.hi, lo |-> FirstValue.lo])

\* C8 (amended): 0 is rejected expecting "an integer 1 or greater"; every
\* integer in 1 .. 4294967295 is accepted and stored unchanged; a larger one
\* is rejected
C8_GcIntervalU32 ==
    FirstKeyIs("gc_interval") =>
        LET v == FirstValue
        IN  IF v = IntV(0, 0)
            THEN /\ ~Loaded.ok
                 /\ Loaded.cause = [field |-> "gc_interval",
                                    kind |-> "invalid value",
                                    expected |-> "an integer 1 or greater"]
            ELSE IF v.t = "int" /\ 0 <= v.hi /\ v.hi <= 65535
            THEN /\ Only => Loaded.ok
                 /\ Loaded.ok => Loaded.config.gc_interval
                                    = [hi |-> v.hi, lo |-> v.lo]
            ELSE /\ ~Loaded.ok
                 /\ Loaded.cause.field = "gc_interval"
                 /\ Loaded.cause.kind = "invalid type"

\* gc_interval = 1 is accepted and stored
C8_Witness ==
    /\ FirstKeyIs("gc_interval")
    /\ FirstValue = IntV(0, 1)
    /\ Loaded.ok
    /\ Loaded.config.gc_interval = [hi |-> 0, lo |-> 1]

\* C8 as stated: 1 and any larger integer are accepted and stored unchanged
C8_EveryPositiveAccepted ==
    (FirstKeyIs("gc_interval") /\ Only /\ FirstValue.t = "int"
        /\ (FirstValue.hi > 0 \/ (FirstValue.hi = 0 /\ FirstValue.lo >= 1))) =>
            /\ Loaded.ok
            /\ Loaded.config.gc_interval
                  = [hi |-> FirstValue.hi, lo |-> FirstValue.lo]

\* C9: a document with a top-level key that is not one of the seven fields is
\* never loaded: try_load returns the parse error, whatever the other entries
C9_UnknownFieldRejected ==
    (/\ loaded # None
     /\ doc.state = "ok"
     /\ \E i \in 1..Len(doc.entries) :
            doc.entries[i][1] \notin
                {"instance_timeout", "gc_interval", "listen", "connect",
                 "log_filters", "log_mode", "pass_environment"}) =>
        /\ ~Loaded.ok
        /\ Loaded.context = "cannot parse config file"

\* a valid entry followed by an unknown key: rejected for the unknown key
C9_Witness ==
    /\ loaded # None
    /\ doc.state = "ok"
    /\ doc.entries = <<<<"gc_interval", IntV(0, 1)>>, <<"timeout", IntV(0, 1)>>>>
    /\ ~Loaded.ok
    /\ Loaded.cause.kind = "unknown field"
    /\ Loaded.cause.field = "timeout"

====
